---- MODULE Spec2Model ----
(***************************************************************************)
(* Krevetka publishing scripts.                                            *)
(*                                                                         *)
(*   GitRepublishStrategy : the CommonJS script (git init .. git push -f)  *)
(*   ApiUploadStrategy    : publish.js (Octokit createOrUpdateFileContents)*)
(*                                                                         *)
(* A "slot" is one operating-system process running one of the scripts.    *)
(* The remote hosting branch gh-pages is the only state shared by slots.   *)
(* git and the GitHub contents API are the environment of the scripts:     *)
(* each blocking execSync call and each await is one step.                 *)
(***************************************************************************)
EXTENDS Integers, Sequences, FiniteSets, TLC

\* ------------------------------------------------------------------ bounds
MaxRuns     == 2   \* processes started one after the other in Spec
MaxPrior    == 2   \* commits on gh-pages before the first run
NumContents == 2   \* distinct file contents (content i is i bytes long)

\* --------------------------------------------------------------- constants
Slots   == {1, 2}
Racers  == {1, 2}
Target  == "docs/index.html"
Paths   == {"docs/index.html", "index.html"}
Tokens  == {"", "ghp"}
Pad     == 64

GitSteps == <<"init", "checkout", "config_email", "config_name",
              "add", "commit", "remote_add", "push">>

VARIABLES
    remote,    \* gh-pages on GitHub: sequence of commits, tip last; <<>> = no branch
    kind,      \* kind[r]   : "none" | "git" | "api"  (script the process runs)
    pc,        \* pc[r]     : position of the process in its script
    token,     \* token[r]  : process.env.GITHUB_TOKEN
    workdir,   \* workdir[r]: files of the current working directory
    repo,      \* repo[r]   : local git repository of the working directory
    calls,     \* calls[r]  : git subprocesses invoked, in order
    content,   \* content[r]: base64 text returned by readFileSync
    sent,      \* sent[r]   : requests handed to octokit
    inflight,  \* inflight[r]: requests not yet handled by the API
    status,    \* status[r] : outcome of the remote write (0 = none yet)
    out,       \* out[r]    : console.log lines
    err,       \* err[r]    : console.error lines
    exit,      \* exit[r]   : -1 running, else process exit status
    launched,  \* number of processes started so far
    prev,      \* the process that ran before: script, exit status, docs/index.html
    lastWrite  \* live process whose push or request reached GitHub last (0 = none)

vars == <<remote, kind, pc, token, workdir, repo, calls, content, sent,
          inflight, status, out, err, exit, launched, prev, lastWrite>>

\* ------------------------------------------------------------- file system
Bytes(i) == [j \in 1..i |-> (83 * i + 57 * j) % 256]

FileBytes == {Bytes(i) : i \in 1..NumContents}

Trees == UNION {[S -> FileBytes] : S \in SUBSET Paths}

EmptyTree == [p \in {} |-> <<>>]

Put(tree, p, b) == [q \in (DOMAIN tree) \cup {p} |-> IF q = p THEN b ELSE tree[q]]

\* ------------------------------------------------------------------ base64
RECURSIVE Base64(_)
Base64(b) ==
    IF Len(b) = 0 THEN <<>>
    ELSE IF Len(b) = 1 THEN
        <<b[1] \div 4, (b[1] % 4) * 16, Pad, Pad>>
    ELSE IF Len(b) = 2 THEN
        <<b[1] \div 4, (b[1] % 4) * 16 + (b[2] \div 16), (b[2] % 16) * 4, Pad>>
    ELSE
        <<b[1] \div 4, (b[1] % 4) * 16 + (b[2] \div 16),
          (b[2] % 16) * 4 + (b[3] \div 64), b[3] % 64>>
        \o Base64(SubSeq(b, 4, Len(b)))

RECURSIVE Base64Decode(_)
Base64Decode(s) ==
    IF Len(s) < 4 THEN <<>>
    ELSE
        LET b1 == s[1] * 4 + (s[2] \div 16)
            b2 == (s[2] % 16) * 16 + (s[3] \div 4)
            b3 == (s[3] % 4) * 64 + s[4]
        IN  IF s[3] = Pad THEN <<b1>>
            ELSE IF s[4] = Pad THEN <<b1, b2>>
            ELSE <<b1, b2, b3>> \o Base64Decode(SubSeq(s, 5, Len(s)))

\* ------------------------------------------------------------ remote state
Commit(t, r) == [tree |-> t, by |-> r]

Tip(h) == h[Len(h)]

PriorHistories ==
    {<<>>} \cup {[i \in 1..n |-> Commit(t, 0)] : n \in 1..MaxPrior, t \in Trees}

NoRepo == [head |-> <<>>, email |-> FALSE, name |-> FALSE,
           index |-> EmptyTree, origin |-> "none"]

NoPrev == [kind |-> "none", exit |-> -1, artifact |-> <<>>]

Init ==
    /\ remote \in PriorHistories
    /\ kind = [r \in Slots |-> "none"]
    /\ pc = [r \in Slots |-> "idle"]
    /\ token = [r \in Slots |-> ""]
    /\ workdir = [r \in Slots |-> EmptyTree]
    /\ repo = [r \in Slots |-> NoRepo]
    /\ calls = [r \in Slots |-> <<>>]
    /\ content = [r \in Slots |-> <<>>]
    /\ sent = [r \in Slots |-> 0]
    /\ inflight = [r \in Slots |-> <<>>]
    /\ status = [r \in Slots |-> 0]
    /\ out = [r \in Slots |-> <<>>]
    /\ err = [r \in Slots |-> <<>>]
    /\ exit = [r \in Slots |-> -1]
    /\ launched = 0
    /\ prev = NoPrev
    /\ lastWrite = 0

\* ---------------------------------------------------------- process start
PreRepos == {NoRepo, [NoRepo EXCEPT !.head = <<Commit(EmptyTree, 0)>>]}

Set(f, r, v) == [f EXCEPT ![r] = v]

Log(f, r, line) == [f EXCEPT ![r] = Append(@, line)]

\* node <script>: the environment hands the process its token and directory.
Launch(r, k) ==
    /\ pc[r] = "idle"
    /\ launched < MaxRuns
    /\ launched' = launched + 1
    /\ kind' = Set(kind, r, k)
    /\ \E t \in Tokens : token' = Set(token, r, t)
    /\ \E w \in Trees : workdir' = Set(workdir, r, w)
    /\ IF k = "git"
         THEN /\ \E g \in PreRepos : repo' = Set(repo, r, g)
              /\ pc' = Set(pc, r, "check")
         ELSE /\ repo' = repo
              /\ pc' = Set(pc, r, "construct")
    /\ UNCHANGED <<remote, calls, content, sent, inflight, status, out, err,
                   exit, prev, lastWrite>>

\* The automation discards the finished process and its ephemeral directory.
Teardown(r) ==
    /\ pc[r] = "done"
    /\ prev' = [kind |-> kind[r], exit |-> exit[r],
                artifact |-> IF Target \in DOMAIN workdir[r]
                               THEN workdir[r][Target] ELSE <<>>]
    /\ kind' = Set(kind, r, "none")
    /\ pc' = Set(pc, r, "idle")
    /\ token' = Set(token, r, "")
    /\ workdir' = Set(workdir, r, EmptyTree)
    /\ repo' = Set(repo, r, NoRepo)
    /\ calls' = Set(calls, r, <<>>)
    /\ content' = Set(content, r, <<>>)
    /\ sent' = Set(sent, r, 0)
    /\ status' = Set(status, r, 0)
    /\ out' = Set(out, r, <<>>)
    /\ err' = Set(err, r, <<>>)
    /\ exit' = Set(exit, r, -1)
    /\ lastWrite' = IF lastWrite = r THEN 0 ELSE lastWrite
    /\ UNCHANGED <<remote, inflight, launched>>

\* ------------------------------------------------- GitRepublishStrategy
\* Mutant: the error is printed but process.exit(1) is missing.
GitTokenCheck_NoExit(r) ==
    /\ pc[r] = "check"
    /\ err' = IF token[r] = "" THEN Log(err, r, "token_not_set") ELSE err
    /\ pc' = Set(pc, r, "init")
    /\ UNCHANGED <<remote, kind, token, workdir, repo, calls, content, sent,
                   inflight, status, out, exit, launched, prev, lastWrite>>

\* if (!token) { console.error(...); process.exit(1); }
GitTokenCheck(r) ==
    /\ pc[r] = "check"
    /\ IF token[r] = ""
         THEN /\ err' = Log(err, r, "token_not_set")
              /\ exit' = Set(exit, r, 1)
              /\ pc' = Set(pc, r, "done")
         ELSE /\ pc' = Set(pc, r, "init")
              /\ UNCHANGED <<err, exit>>
    /\ UNCHANGED <<remote, kind, token, workdir, repo, calls, content, sent,
                   inflight, status, out, launched, prev, lastWrite>>

\* Mutant: the handler "rolls back" by deleting the remote branch.
GitCatch_DeleteRemote(r) ==
    /\ err' = Log(err, r, "publish_error")
    /\ exit' = Set(exit, r, 1)
    /\ pc' = Set(pc, r, "done")
    /\ remote' = <<>>

\* catch (error) { console.error(...); process.exit(1); }
GitCatch(r) ==
    /\ err' = Log(err, r, "publish_error")
    /\ exit' = Set(exit, r, 1)
    /\ pc' = Set(pc, r, "done")
    /\ UNCHANGED remote

\* Mutant: a failing command is ignored and the script goes on.
Exec_Swallow(r, at, cmd, can, after, next) ==
    /\ pc[r] = at
    /\ \E ok \in BOOLEAN :
         /\ calls' = Log(calls, r, [cmd |-> cmd, rc |-> IF ok /\ can THEN 0 ELSE 1])
         /\ repo' = Set(repo, r, IF ok /\ can THEN after ELSE repo[r])
         /\ pc' = Set(pc, r, next)
         /\ UNCHANGED <<err, exit, remote>>

\* One execSync(cmd): the subprocess runs to completion; non-zero status throws.
\* git may fail for reasons outside the script (ok = FALSE); `can` is what git
\* itself requires of the repository, `after` the repository it leaves.
Exec(r, at, cmd, can, after, next) ==
    /\ pc[r] = at
    /\ \E ok \in BOOLEAN :
         IF ok /\ can
           THEN /\ calls' = Log(calls, r, [cmd |-> cmd, rc |-> 0])
                /\ repo' = Set(repo, r, after)
                /\ pc' = Set(pc, r, next)
                /\ UNCHANGED <<err, exit, remote>>
           ELSE /\ calls' = Log(calls, r, [cmd |-> cmd, rc |-> 1])
                /\ GitCatch(r)
                /\ UNCHANGED repo

GitFrame == <<kind, token, workdir, content, sent, inflight, status,
              out, launched, prev, lastWrite>>

GitInit(r) ==
    /\ Exec(r, "init", "init", TRUE, repo[r], "checkout")
    /\ UNCHANGED GitFrame

\* Mutant: git checkout -b gh-pages (the branch keeps the history of HEAD).
OrphanHead_KeepHistory(h) == h

OrphanHead(h) == <<>>

GitCheckoutOrphan(r) ==
    /\ Exec(r, "checkout", "checkout",
            TRUE, [repo[r] EXCEPT !.head = OrphanHead(@)], "config_email")
    /\ UNCHANGED GitFrame

GitConfigEmail(r) ==
    /\ Exec(r, "config_email", "config_email",
            TRUE, [repo[r] EXCEPT !.email = TRUE], "config_name")
    /\ UNCHANGED GitFrame

GitConfigName(r) ==
    /\ Exec(r, "config_name", "config_name",
            TRUE, [repo[r] EXCEPT !.name = TRUE], "add")
    /\ UNCHANGED GitFrame

\* console.log(cwd) then git add .
Staged(w) == w

GitAdd(r) ==
    /\ Exec(r, "add", "add", TRUE, [repo[r] EXCEPT !.index = Staged(workdir[r])], "commit")
    /\ out' = Log(out, r, "cwd")
    /\ UNCHANGED <<kind, token, workdir, content, sent, inflight,
                   status, launched, prev, lastWrite>>

\* git commit refuses an empty index and a missing identity.
CanCommit(g) == g.email /\ g.name /\ DOMAIN g.index # {}

GitCommit(r) ==
    /\ Exec(r, "commit", "commit", CanCommit(repo[r]),
            [repo[r] EXCEPT !.head = Append(@, Commit(repo[r].index, r))],
            "remote_add")
    /\ UNCHANGED GitFrame

GitRemoteAdd(r) ==
    /\ Exec(r, "remote_add", "remote_add", repo[r].origin = "none",
            [repo[r] EXCEPT !.origin = token[r]], "push")
    /\ UNCHANGED GitFrame

\* git push -f origin gh-pages: the remote ref is replaced by the local branch.
ForcePushed(old, new) == new

GitPush(r) ==
    /\ pc[r] = "push"
    /\ lastWrite' = r
    /\ \E up \in BOOLEAN :
         IF up /\ repo[r].head # <<>>
           THEN /\ calls' = Log(calls, r, [cmd |-> "push", rc |-> 0])
                /\ remote' = ForcePushed(remote, repo[r].head)
                /\ status' = Set(status, r, 200)
                /\ pc' = Set(pc, r, "log")
                /\ UNCHANGED <<err, exit>>
           ELSE /\ calls' = Log(calls, r, [cmd |-> "push", rc |-> 1])
                /\ status' = Set(status, r, 503)
                /\ GitCatch(r)
    /\ UNCHANGED <<kind, token, workdir, repo, content, sent, inflight, out,
                   launched, prev>>

\* console.log(success); the script ends, node exits with status 0.
GitLogSuccess(r) ==
    /\ pc[r] = "log"
    /\ out' = Log(out, r, "published")
    /\ exit' = Set(exit, r, 0)
    /\ pc' = Set(pc, r, "done")
    /\ UNCHANGED <<remote, kind, token, workdir, repo, calls, content, sent,
                   inflight, status, err, launched, prev, lastWrite>>

\* ----------------------------------------------------- ApiUploadStrategy
ApiFrame == <<remote, kind, token, workdir, repo, calls, launched, prev, lastWrite>>

\* const octokit = new Octokit({ auth: process.env.GITHUB_TOKEN });
ApiNewOctokit(r) ==
    /\ pc[r] = "construct"
    /\ pc' = Set(pc, r, "read")
    /\ UNCHANGED <<content, sent, inflight, status, out, err, exit>>
    /\ UNCHANGED ApiFrame

\* Mutant: the error is logged but process.exit(1) is missing (exit status 0).
ApiCatch_NoExit(r) ==
    /\ err' = Log(err, r, "upload_failed")
    /\ exit' = Set(exit, r, 0)
    /\ pc' = Set(pc, r, "done")

\* catch (err) { console.error("Upload failed:", err); process.exit(1); }
ApiCatch(r) ==
    /\ err' = Log(err, r, "upload_failed")
    /\ exit' = Set(exit, r, 1)
    /\ pc' = Set(pc, r, "done")

\* path.join("docs", "index.html")
FilePath == "docs/index.html"

\* fs.readFileSync(filePath, { encoding: "base64" }): throws when the file is
\* missing or unreadable.
ApiReadFile(r) ==
    /\ pc[r] = "read"
    /\ \E readable \in BOOLEAN :
         IF readable /\ FilePath \in DOMAIN workdir[r]
           THEN /\ content' = Set(content, r, Base64(workdir[r][FilePath]))
                /\ pc' = Set(pc, r, "request")
                /\ UNCHANGED <<err, exit>>
           ELSE /\ ApiCatch(r)
                /\ UNCHANGED content
    /\ UNCHANGED <<sent, inflight, status, out>>
    /\ UNCHANGED ApiFrame

\* Mutant: the request addresses another path of the branch.
Request_OtherPath(r) ==
    [path |-> "index.html", content |-> content[r], branch |-> "gh-pages", auth |-> token[r]]

\* The arguments of octokit.repos.createOrUpdateFileContents (owner and repo
\* are the constants BuildersSC/Krevetka); auth is what the client was built with.
Request(r) ==
    [path |-> Target, content |-> content[r], branch |-> "gh-pages", auth |-> token[r]]

\* await octokit.repos.createOrUpdateFileContents({...}): the request leaves.
ApiSendRequest(r) ==
    /\ pc[r] = "request"
    /\ sent' = Set(sent, r, sent[r] + 1)
    /\ inflight' = Set(inflight, r, <<Request(r)>>)
    /\ pc' = Set(pc, r, "await")
    /\ UNCHANGED <<content, status, out, err, exit>>
    /\ UNCHANGED ApiFrame

\* GitHub "create or update file contents" (PUT /repos/../contents/{path}):
\* 401 without credentials, 404 for a missing branch, 422 when the path exists
\* and the request carries no blob sha, else one new commit on top of the tip.
ApiStatus(h, req, up) ==
    IF ~up THEN 503
    ELSE IF req.auth = "" THEN 401
    ELSE IF h = <<>> THEN 404
    ELSE IF req.path \in DOMAIN Tip(h).tree /\ "sha" \notin DOMAIN req THEN 422
    ELSE 201

Uploaded(h, req, r) ==
    Append(h, Commit(Put(Tip(h).tree, req.path, Base64Decode(req.content)), r))

ApiServe(r) ==
    /\ inflight[r] # <<>>
    /\ \E up \in BOOLEAN :
         LET req == inflight[r][1]
             code == ApiStatus(remote, req, up)
         IN  /\ status' = Set(status, r, code)
             /\ remote' = IF code = 201 THEN Uploaded(remote, req, r) ELSE remote
    /\ lastWrite' = r
    /\ inflight' = Set(inflight, r, <<>>)
    /\ UNCHANGED <<kind, pc, token, workdir, repo, calls, content, sent, out,
                   err, exit, launched, prev>>

\* Mutant: a rejected request is retried.
ApiSettle_Retry(r) ==
    /\ pc[r] = "await"
    /\ status[r] # 0
    /\ IF status[r] = 201
         THEN /\ out' = Log(out, r, "uploaded")
              /\ exit' = Set(exit, r, 0)
              /\ pc' = Set(pc, r, "done")
              /\ UNCHANGED <<err, status>>
         ELSE /\ pc' = Set(pc, r, "request")
              /\ status' = Set(status, r, 0)
              /\ UNCHANGED <<out, err, exit>>
    /\ UNCHANGED <<content, sent, inflight>>
    /\ UNCHANGED ApiFrame

\* The await settles: resolved -> console.log and normal exit; rejected -> catch.
ApiSettle(r) ==
    /\ pc[r] = "await"
    /\ status[r] # 0
    /\ IF status[r] = 201
         THEN /\ out' = Log(out, r, "uploaded")
              /\ exit' = Set(exit, r, 0)
              /\ pc' = Set(pc, r, "done")
              /\ UNCHANGED err
         ELSE /\ ApiCatch(r)
              /\ UNCHANGED out
    /\ UNCHANGED <<content, sent, inflight, status>>
    /\ UNCHANGED ApiFrame

\* ----------------------------------------------------------- specifications
Step(r) ==
    \/ GitTokenCheck(r)
    \/ GitInit(r)
    \/ GitCheckoutOrphan(r)
    \/ GitConfigEmail(r)
    \/ GitConfigName(r)
    \/ GitAdd(r)
    \/ GitCommit(r)
    \/ GitRemoteAdd(r)
    \/ GitPush(r)
    \/ GitLogSuccess(r)
    \/ ApiNewOctokit(r)
    \/ ApiReadFile(r)
    \/ ApiSendRequest(r)
    \/ ApiServe(r)
    \/ ApiSettle(r)

\* One publish cycle after the other: a single process at a time.
Next ==
    \/ \E k \in {"git", "api"} : Launch(1, k)
    \/ Teardown(1)
    \/ Step(1)

Spec == Init /\ [][Next]_vars

\* Two processes of the same script started with no locking between them.
RaceLaunch(r) ==
    \E k \in {"git", "api"} :
        /\ \A q \in Racers : kind[q] \in {"none", k}
        /\ Launch(r, k)

NextRace ==
    \E r \in Racers :
        \/ RaceLaunch(r)
        \/ Step(r)

SpecRace == Init /\ [][NextRace]_vars

\* =================================================================== claims
Done(r) == pc[r] = "done"

Git(r) == kind[r] = "git"

Api(r) == kind[r] = "api"

Cmds(r) == [i \in 1..Len(calls[r]) |-> calls[r][i].cmd]

Mentions(log, line) == \E i \in 1..Len(log) : log[i] = line

\* C1: a GitRepublishStrategy process whose GITHUB_TOKEN is unset or empty
\* never invokes a git subprocess and never reaches the remote; when it has
\* terminated it has printed the configuration error to standard error and
\* its exit status is 1.
C1_TokenUnsetNoGit ==
    \A r \in Slots :
        (Git(r) /\ token[r] = "") =>
            /\ calls[r] = <<>>
            /\ status[r] = 0
            /\ pc[r] \in {"check", "done"}
            /\ exit[r] # 0
            /\ Done(r) => (exit[r] = 1 /\ err[r] = <<"token_not_set">> /\ out[r] = <<>>)

C1_Witness ==
    \E r \in Slots : Git(r) /\ token[r] = "" /\ Done(r) /\ exit[r] = 1

\* C2: an ApiUploadStrategy process whose GITHUB_TOKEN is unset exits with
\* status 1 and never issues the create-or-update request.
C2_ApiTokenUnsetNoRequest ==
    \A r \in Slots :
        (Api(r) /\ token[r] = "") =>
            /\ sent[r] = 0
            /\ Done(r) => exit[r] = 1

C4_ApiTouchesOnlyTarget ==
    [][\A r \in Slots :
          (Api(r) /\ status[r] = 0 /\ status'[r] = 201) =>
              /\ Len(remote') = Len(remote) + 1
              /\ SubSeq(remote', 1, Len(remote)) = remote
              /\ DOMAIN Tip(remote').tree = DOMAIN Tip(remote).tree \cup {Target}
              /\ \A p \in DOMAIN Tip(remote).tree \ {Target} :
                     Tip(remote').tree[p] = Tip(remote).tree[p]
              /\ Tip(remote').tree[Target] = workdir[r][Target]]_vars

C4_Witness ==
    \E r \in Slots :
        /\ Api(r) /\ Done(r) /\ exit[r] = 0
        /\ Len(remote) = 3
        /\ remote[1].by = 0 /\ remote[2].by = 0
        /\ "index.html" \in DOMAIN remote[2].tree
        /\ Tip(remote).tree["index.html"] = remote[2].tree["index.html"]
        /\ Tip(remote).tree[Target] = workdir[r][Target]

\* C5: the git subprocesses of a process are a prefix of init, checkout,
\* config email, config name, add, commit, remote add, push (in that order,
\* each at most once); a subprocess that returned non-zero is the last one the
\* process ever ran, and the process has then terminated with status 1.
C5_OrderedFailFast ==
    \A r \in Slots :
        Git(r) =>
            /\ Len(calls[r]) <= Len(GitSteps)
            /\ Cmds(r) = SubSeq(GitSteps, 1, Len(calls[r]))
            /\ \A i \in 1..Len(calls[r]) :
                   calls[r][i].rc # 0 =>
                       (i = Len(calls[r]) /\ Done(r) /\ exit[r] = 1)

C5_Witness ==
    \E r \in Slots :
        /\ Git(r) /\ Done(r) /\ exit[r] = 1
        /\ Len(calls[r]) = 6
        /\ calls[r][6].rc # 0

\* C6: no step of a GitRepublishStrategy process other than a push that
\* succeeds changes gh-pages; in particular a process that fails before the
\* push, even after its local commit, leaves the branch as it was.
C6_OnlyPushWritesRemote ==
    [][(Git(1) /\ remote' # remote) =>
          (pc[1] = "push" /\ pc'[1] = "log" /\ status'[1] = 200)]_vars

C6_Witness ==
    \E r \in Slots :
        /\ Git(r) /\ Done(r) /\ exit[r] = 1
        /\ Len(calls[r]) = 7 /\ calls[r][7].rc # 0
        /\ repo[r].head # <<>>
        /\ status[r] = 0
        /\ remote # <<>> /\ Tip(remote).by = 0

\* C7: an ApiUploadStrategy process that follows a successful one with the
\* same artifact, with its token set and the API reachable, succeeds too:
\* two commits were added and docs/index.html holds the artifact bytes.
C7_ApiTwiceInARow ==
    \A r \in Slots :
        ( /\ Api(r) /\ Done(r)
          /\ token[r] # ""
          /\ status[r] \notin {0, 503}
          /\ prev.kind = "api" /\ prev.exit = 0
          /\ Target \in DOMAIN workdir[r]
          /\ prev.artifact = workdir[r][Target] ) =>
            /\ exit[r] = 0
            /\ Len(remote) >= 2
            /\ Tip(remote).tree[Target] = workdir[r][Target]

\* C8: an ApiUploadStrategy process issues at most one request, and only with
\* the base64 text of docs/index.html that it has read; a process that could
\* not read the file terminates with status 1 and nothing reaches the API.
C8_OneRequestAfterRead ==
    \A r \in Slots :
        Api(r) =>
            /\ sent[r] <= 1
            /\ sent[r] = 1 =>
                   /\ Target \in DOMAIN workdir[r]
                   /\ content[r] = Base64(workdir[r][Target])
                   /\ Base64Decode(content[r]) = workdir[r][Target]
            /\ (inflight[r] # <<>> \/ status[r] # 0) => sent[r] = 1
            /\ (Done(r) /\ content[r] = <<>>) =>
                   (exit[r] = 1 /\ sent[r] = 0 /\ status[r] = 0)
            /\ Target \notin DOMAIN workdir[r] => content[r] = <<>>

C8_Witness ==
    \E r \in Slots :
        /\ Api(r) /\ Done(r) /\ exit[r] = 1
        /\ Target \notin DOMAIN workdir[r]
        /\ token[r] # ""
        /\ sent[r] = 0

\* C9: a process has exit status 0 exactly when every step succeeded (all
\* eight git commands returned zero, or the API accepted the request) and the
\* success line was logged; every other terminated process has status 1, a
\* diagnostic on standard error and no success line.
Succeeded(r) ==
    \/ Git(r) /\ Len(calls[r]) = Len(GitSteps)
              /\ \A i \in 1..Len(calls[r]) : calls[r][i].rc = 0
    \/ Api(r) /\ status[r] = 201

SuccessLogged(r) == Mentions(out[r], "published") \/ Mentions(out[r], "uploaded")

C9_ExitCodes ==
    \A r \in Slots :
        /\ exit[r] \in {-1, 0, 1}
        /\ exit[r] # -1 <=> Done(r)
        /\ exit[r] = 0 <=> (Done(r) /\ Succeeded(r))
        /\ exit[r] = 0 => (SuccessLogged(r) /\ err[r] = <<>>)
        /\ (Done(r) /\ ~Succeeded(r)) =>
               (exit[r] = 1 /\ err[r] # <<>> /\ ~SuccessLogged(r))

C9_Witness ==
    \E r \in Slots : Api(r) /\ Done(r) /\ status[r] = 422 /\ exit[r] = 1

\* C10: when two processes of the same strategy have both terminated and both
\* reached GitHub with their write (token accepted, branch present, transport
\* up), gh-pages is what the process that reached GitHub last wrote: its
\* commit is the tip and the published content is its artifact alone.
WroteLast(r) ==
    /\ Git(r) => (Len(remote) = 1 /\ Tip(remote).tree = workdir[r])
    /\ Api(r) => (Target \in DOMAIN Tip(remote).tree
                  /\ Tip(remote).tree[Target] = workdir[r][Target])

C10_LastWriterWins ==
    ( /\ \A r \in Racers : Done(r) /\ status[r] \in {200, 201, 422}
      /\ \E r \in Racers : status[r] \in {200, 201} ) =>
        (remote # <<>> /\ WroteLast(lastWrite))

\* C10, GitRepublishStrategy alone: of two racing git processes that both
\* pushed, the one whose force-push arrived last owns the whole branch.
C10_GitLastPushWins ==
    (\A r \in Racers : Git(r) /\ Done(r) /\ status[r] = 200) =>
        (remote # <<>> /\ WroteLast(lastWrite) /\ Tip(remote).by = lastWrite)

====
